---- MODULE Spec2Model ----
(***************************************************************************)
(* State-machine model of the onepaper ingestion pipeline.                 *)
(*                                                                         *)
(*   backend/main.py   submit_paper_for_processing,                        *)
(*                     get_paper_processing_status                         *)
(*   backend/tasks.py  process_new_paper (one action per statement group   *)
(*                     that touches a store, the file system or an         *)
(*                     external service)                                   *)
(*   processing/*.py   the offline writers of the same papers table and    *)
(*                     the same vector collection                          *)
(*                                                                         *)
(* The relational table is a function from the identifiers that have a row *)
(* to the row; the vector collection is a function from the identifiers    *)
(* that have a record to the embedding; the temp directory is a function   *)
(* from the identifiers whose temp_pdfs/<id>.pdf exists to the job that    *)
(* wrote the file last.                                                    *)
(***************************************************************************)
EXTENDS Integers, Sequences, FiniteSets, TLC

\* ------------------------------------------------------------------ bounds
\* Number of writer runs a behaviour may hold: executions of process_new_paper
\* (accepted submissions) plus runs of the offline scripts.
MaxRuns == 2

\* The arXiv identifiers clients submit.
Ids == {"2101.00001", "2101.00002"}

\* SQL NULL / Python None in a text column.
Null == "NULL"

\* Largest page count of the documents extract_text_from_pdf is called on.
MaxPages == 30

\* Pages extract_text_from_pdf keeps from the start and from the end.
PAGES_FROM_START == 15
PAGES_FROM_END == 10

VARIABLES
    papers,     \* papers table: [ids with a row -> row]
    vectors,    \* Chroma collection "papers": [ids with a record -> embedding]
    files,      \* ./temp_pdfs: [ids whose <id>.pdf exists -> job that wrote it]
    jobs,       \* scheduled executions of process_new_paper, in schedule order
    resp,       \* the HTTP response of the latest request
    offline,    \* number of offline script runs so far
    call        \* a function called on its own: its arguments and return value

vars == <<papers, vectors, files, jobs, resp, offline, call>>

\* ------------------------------------------------------- tables as functions
\* INSERT ... ON CONFLICT(id) DO UPDATE SET <every column> / collection.upsert
Upsert(table, key, value) ==
    [k \in (DOMAIN table) \cup {key} |-> IF k = key THEN value ELSE table[k]]

\* os.remove(path)
Remove(table, key) ==
    [k \in (DOMAIN table) \ {key} |-> table[k]]

Empty == [k \in {} |-> Null]

\* ------------------------------------------------------------ pure helpers
\* dict.get(key, default) on the parsed JSON object
Get(d, key, default) ==
    IF key \in DOMAIN d THEN d[key] ELSE default

\* sep.join(list) for a list of strings
RECURSIVE Join(_, _)
Join(list, sep) ==
    IF Len(list) = 0 THEN ""
    ELSE IF Len(list) = 1 THEN list[1]
    ELSE list[1] \o sep \o Join(Tail(list), sep)

\* json.dumps(list) for a list of strings: '[]' for the empty list
Quoted(list) ==
    [n \in 1..Len(list) |-> "\"" \o list[n] \o "\""]

JsonDumps(list) ==
    "[" \o Join(Quoted(list), ", ") \o "]"

\* The keys the prompt asks the text-generation service for.
TextKeys == {"title", "abstract", "contribution"}
ListKeys == {"tasks", "methods", "datasets", "code_links", "results"}

\* What the text-generation service answers for job j: free text that is not
\* JSON, a JSON list, string, number or null, a JSON object with every key, or
\* the JSON object {}.
FullObject(j) ==
    [k \in TextKeys \cup ListKeys |->
        IF k \in TextKeys THEN k \o " " \o ToString(j)
        ELSE <<k \o " " \o ToString(j)>>]

Contents(j) ==
    { [kind |-> "text",   value |-> Empty],
      [kind |-> "list",   value |-> Empty],
      [kind |-> "string", value |-> Empty],
      [kind |-> "number", value |-> Empty],
      [kind |-> "null",   value |-> Empty],
      [kind |-> "object", value |-> FullObject(j)],
      [kind |-> "object", value |-> Empty] }

\* json.loads(content_str): raises JSONDecodeError on text that is not JSON
JsonLoadsRaises(content) ==
    content.kind = "text"

\* paper.authors of the arXiv entry
Authors(arxiv_id) ==
    <<"First " \o arxiv_id, "Second " \o arxiv_id>>

\* text_to_embed = f"{info.get('title', '')}. {info.get('abstract', '')}"
TextToEmbed(info) ==
    Get(info, "title", "") \o ". " \o Get(info, "abstract", "")

\* embedding_model.encode(text): a deterministic function of the text
Encode(text) ==
    "vec(" \o text \o ")"

\* The parameter tuple of the INSERT ... ON CONFLICT statement.
RowOf(arxiv_id, info) ==
    [ title        |-> Get(info, "title", Null),
      abstract     |-> Get(info, "abstract", Null),
      authors      |-> Join(Authors(arxiv_id), ","),
      contribution |-> Get(info, "contribution", Null),
      tasks        |-> JsonDumps(Get(info, "tasks", <<>>)),
      methods      |-> JsonDumps(Get(info, "methods", <<>>)),
      datasets     |-> JsonDumps(Get(info, "datasets", <<>>)),
      code_links   |-> JsonDumps(Get(info, "code_links", <<>>)),
      results      |-> JsonDumps(Get(info, "results", <<>>)),
      processed    |-> 2 ]

\* ------------------------------------------------------ extract_text_from_pdf
\* text_parts.append("\n\n... [DOCUMENT TRUNCATED] ...\n\n")
Marker == "\n\n... [DOCUMENT TRUNCATED] ...\n\n"

\* page.get_text() of page k (counted from 1) of a document with a text layer.
PageText(k) ==
    "[page " \o ToString(k) \o "]"

\* A document: whether fitz.open succeeds on it, and the text of its pages.
\* A scanned document has pages and no extractable character on any of them.
Pdf(n, kind) ==
    [ opens |-> TRUE,
      pages |-> [k \in 1..n |-> IF kind = "text" THEN PageText(k) ELSE ""] ]

Unopenable == [opens |-> FALSE, pages |-> <<>>]

Min(a, b) == IF a < b THEN a ELSE b
Max(a, b) == IF a > b THEN a ELSE b

\* Variant of the start of the closing range: one page earlier.
StartPageForEndOneEarlier(total_pages) ==
    Max(PAGES_FROM_START, total_pages - PAGES_FROM_END - 1)

\* Variant of the start of the closing range: the last PAGES_FROM_END pages,
\* whether or not the opening range has covered them.
StartPageForEndWithoutFloor(total_pages) ==
    total_pages - PAGES_FROM_END

\* start_page_for_end = max(PAGES_FROM_START, total_pages - PAGES_FROM_END)
\* The index counts pages from 0.
StartPageForEnd(total_pages) ==
    Max(PAGES_FROM_START, total_pages - PAGES_FROM_END)

\* text_parts: the opening pages, the marker, and, when the document has more
\* than PAGES_FROM_START pages, the pages from start_page_for_end on.
TextParts(pages) ==
    LET total_pages == Len(pages)
    IN  SubSeq(pages, 1, Min(total_pages, PAGES_FROM_START))
        \o <<Marker>>
        \o (IF total_pages > PAGES_FROM_START
            THEN SubSeq(pages, StartPageForEnd(total_pages) + 1, total_pages)
            ELSE <<>>)

\* The full_text extract_text_from_pdf returns: "".join(text_parts), or None
\* when opening or reading the document raised.
ExtractTextFromPdf(pdf) ==
    IF pdf.opens THEN Join(TextParts(pdf.pages), "") ELSE Null

\* not full_text
NotFullText(full_text) ==
    full_text = Null \/ full_text = ""

\* The documents a job finds at its pdf_path: one that does not open, a
\* scanned page, a page of text.
JobPdfs == {Unopenable, Pdf(1, "scan"), Pdf(1, "text")}

\* A function called on its own.
NoCall == [fn |-> "none", pdf |-> Unopenable, returned |-> FALSE, full_text |-> Null]

\* ------------------------------------------------------------- HTTP surface
NoResponse == [op |-> "none", id |-> "", code |-> 0, body |-> ""]

Response(op, id, code, body) ==
    [op |-> op, id |-> id, code |-> code, body |-> body]

\* Variants of the status test: the two rowless answers exchanged, and the
\* other terminal marker (processed == 1) counted as completed.
StatusRowlessProcessing(table, arxiv_id) ==
    IF arxiv_id \in DOMAIN table /\ table[arxiv_id].processed = 2 THEN "completed"
    ELSE IF arxiv_id \in DOMAIN table THEN "pending"
    ELSE "processing"

StatusFromMarker1(table, arxiv_id) ==
    IF arxiv_id \in DOMAIN table /\ table[arxiv_id].processed >= 1 THEN "completed"
    ELSE IF arxiv_id \in DOMAIN table THEN "processing"
    ELSE "pending"

\* get_paper_processing_status: the status string for an identifier
Status(table, arxiv_id) ==
    IF arxiv_id \in DOMAIN table /\ table[arxiv_id].processed = 2 THEN "completed"
    ELSE IF arxiv_id \in DOMAIN table THEN "processing"
    ELSE "pending"

\* Variants of the already-processed test: the other terminal marker
\* (processed == 1), and a test of the row's presence alone.
AlreadyProcessedMarker1(table, arxiv_id) ==
    arxiv_id \in DOMAIN table /\ table[arxiv_id].processed = 1

AlreadyProcessedAnyRow(table, arxiv_id) ==
    arxiv_id \in DOMAIN table

\* existing_paper and getattr(existing_paper, 'processed', 0) == 2
AlreadyProcessed(table, arxiv_id) ==
    arxiv_id \in DOMAIN table /\ table[arxiv_id].processed = 2

\* A job as background_tasks.add_task leaves it: process_new_paper not begun.
NewJob(arxiv_id) ==
    [ arxiv_id       |-> arxiv_id,
      pc             |-> "fetch",
      pdf_path       |-> FALSE,      \* pdf_path is not None
      full_text      |-> "",
      extracted_info |-> [kind |-> "none", value |-> Empty],
      embedding      |-> "",
      wrote          |-> {},         \* stores this execution has written
      failed_at      |-> "",         \* the stage whose statement raised
      raised         |-> "",         \* the exception class that was raised
      result         |-> "" ]        \* the value process_new_paper returned

\* Variant of the handler: process_new_paper is begun inside the request, so
\* the job has passed its first statement when the response is produced.
SubmitPaperInline(arxiv_id, enqueue_ok) ==
    /\ offline' = offline
    /\ UNCHANGED <<papers, vectors, files, call>>
    /\ IF arxiv_id \in DOMAIN papers /\ papers[arxiv_id].processed = 2
       THEN /\ resp' = Response("submit", arxiv_id, 409, "already fully processed")
            /\ jobs' = jobs
       ELSE IF ~enqueue_ok
       THEN /\ resp' = Response("submit", arxiv_id, 500, "Failed to enqueue the processing task.")
            /\ jobs' = jobs
       ELSE /\ Len(jobs) + offline < MaxRuns
            /\ resp' = Response("submit", arxiv_id, 202, "Paper submission accepted for processing.")
            /\ jobs' = Append(jobs, [NewJob(arxiv_id) EXCEPT !.pc = "download"])

\* Variant of the handler: the task is added ahead of the processed == 2
\* test, so a rejected submission has scheduled a job too.
SubmitPaperAddsTaskFirst(arxiv_id, enqueue_ok) ==
    /\ offline' = offline
    /\ UNCHANGED <<papers, vectors, files, call>>
    /\ Len(jobs) + offline < MaxRuns
    /\ IF arxiv_id \in DOMAIN papers /\ papers[arxiv_id].processed = 2
       THEN /\ resp' = Response("submit", arxiv_id, 409, "already fully processed")
            /\ jobs' = Append(jobs, NewJob(arxiv_id))
       ELSE IF ~enqueue_ok
       THEN /\ resp' = Response("submit", arxiv_id, 500, "Failed to enqueue the processing task.")
            /\ jobs' = jobs
       ELSE /\ resp' = Response("submit", arxiv_id, 202, "Paper submission accepted for processing.")
            /\ jobs' = Append(jobs, NewJob(arxiv_id))

\* POST /papers/submit
SubmitPaper(arxiv_id, enqueue_ok) ==
    /\ offline' = offline
    /\ UNCHANGED <<papers, vectors, files, call>>
    /\ IF AlreadyProcessed(papers, arxiv_id)
       THEN /\ resp' = Response("submit", arxiv_id, 409, "already fully processed")
            /\ jobs' = jobs
       ELSE IF ~enqueue_ok
       THEN /\ resp' = Response("submit", arxiv_id, 500, "Failed to enqueue the processing task.")
            /\ jobs' = jobs
       ELSE /\ Len(jobs) + offline < MaxRuns
            /\ resp' = Response("submit", arxiv_id, 202, "Paper submission accepted for processing.")
            /\ jobs' = Append(jobs, NewJob(arxiv_id))

\* Variant of the status handler: the request enqueues a job as a
\* submission does.
GetStatusEnqueues(arxiv_id) ==
    SubmitPaper(arxiv_id, TRUE)

\* GET /papers/status/{arxiv_id}
GetStatus(arxiv_id) ==
    /\ resp' = Response("status", arxiv_id, 200, Status(papers, arxiv_id))
    /\ UNCHANGED <<papers, vectors, files, jobs, offline, call>>

\* ------------------------------------------------------- process_new_paper
\* Variant of the program order: the relational write ahead of the embedding.
StagesWriteBeforeEmbed ==
    <<"fetch", "download", "extract", "llm", "parse", "sqlite", "embed", "chroma">>

\* The statements of the try block, in program order.
Stages == <<"fetch", "download", "extract", "llm", "parse", "embed", "sqlite", "chroma">>

\* Where control goes when the statement group of a stage completes normally.
After(stage) ==
    LET n == CHOOSE k \in 1..Len(Stages) : Stages[k] = stage
    IN  Stages[n + 1]

\* Exception classes the stages raise; each derives from Exception.
ExceptionSubclasses ==
    { "StopIteration", "HTTPError", "ValueError", "APIError", "JSONDecodeError",
      "AttributeError", "RuntimeError", "OperationalError", "ChromaError" }

\* Variant of the except clause: except ValueError as e
CaughtValueErrorOnly(exc) ==
    exc = "ValueError"

\* except Exception as e
Caught(exc) ==
    exc \in ExceptionSubclasses

\* The locals of the try block are not read again once control reaches the
\* finally clause.
NoInfo == [kind |-> "none", value |-> Empty]

Leave(job) ==
    [job EXCEPT !.pc = "finally", !.full_text = "", !.extracted_info = NoInfo,
                !.embedding = ""]

\* A statement of stage `stage` raises `exc`: the except clause returns
\* "Failed: ..." when it catches it; otherwise the exception leaves the
\* function once the finally clause has run.
Raise(job, stage, exc) ==
    IF Caught(exc)
    THEN [Leave(job) EXCEPT !.failed_at = stage, !.raised = exc,
                            !.result = "Failed: " \o exc]
    ELSE [Leave(job) EXCEPT !.failed_at = stage, !.raised = exc]

Advance(job) ==
    [job EXCEPT !.pc = After(job.pc)]

At(j, stage) ==
    /\ j \in 1..Len(jobs)
    /\ jobs[j].pc = stage

\* Variant of the first statement: the job inserts a row with processed = 0
\* for an identifier that has none when it begins.
FetchCreatesRow(j) ==
    /\ j \in 1..Len(jobs)
    /\ jobs[j].pc = "fetch"
    /\ papers' = IF jobs[j].arxiv_id \in DOMAIN papers THEN papers
                 ELSE Upsert(papers, jobs[j].arxiv_id,
                             [RowOf(jobs[j].arxiv_id, Empty) EXCEPT !.processed = 0])
    /\ \/ jobs' = [jobs EXCEPT ![j] = Advance(@)]
       \/ jobs' = [jobs EXCEPT ![j] = Raise(@, "fetch", "StopIteration")]
    /\ UNCHANGED <<vectors, files, resp, offline, call>>

\* search = arxiv.Search(id_list=[arxiv_id]); paper = next(results)
Fetch(j) ==
    /\ At(j, "fetch")
    /\ \/ jobs' = [jobs EXCEPT ![j] = Advance(@)]
       \/ jobs' = [jobs EXCEPT ![j] = Raise(@, "fetch", "StopIteration")]
    /\ UNCHANGED <<papers, vectors, files, resp, offline, call>>

\* pdf_path = paper.download_pdf(dirpath=temp_dir, filename=f"{arxiv_id}.pdf")
\* A failed download leaves no file or a partial one, and pdf_path stays None.
Download(j) ==
    /\ At(j, "download")
    /\ \/ /\ files' = Upsert(files, jobs[j].arxiv_id, j)
          /\ jobs' = [jobs EXCEPT ![j] = [Advance(@) EXCEPT !.pdf_path = TRUE]]
       \/ /\ files' = files
          /\ jobs' = [jobs EXCEPT ![j] = Raise(@, "download", "HTTPError")]
       \/ /\ files' = Upsert(files, jobs[j].arxiv_id, j)
          /\ jobs' = [jobs EXCEPT ![j] = Raise(@, "download", "HTTPError")]
    /\ UNCHANGED <<papers, vectors, resp, offline, call>>

\* _, full_text = extract_text_from_pdf(pdf_path)
\* if not full_text: raise ValueError("Text extraction failed.")
\* A path whose file is gone does not open.
ExtractText(j) ==
    /\ At(j, "extract")
    /\ \E pdf \in IF jobs[j].arxiv_id \in DOMAIN files THEN JobPdfs ELSE {Unopenable} :
          LET full_text == ExtractTextFromPdf(pdf)
          IN  jobs' = [jobs EXCEPT ![j] =
                          IF NotFullText(full_text)
                          THEN Raise(@, "extract", "ValueError")
                          ELSE [Advance(@) EXCEPT !.full_text = full_text]]
    /\ UNCHANGED <<papers, vectors, files, resp, offline, call>>

\* prompt = f"...{full_text}"; response = zhipu_client.chat.completions.create(...)
\* full_text is not read again once the prompt is built.
CallLLM(j) ==
    /\ At(j, "llm")
    /\ \/ jobs' = [jobs EXCEPT ![j] = [Advance(@) EXCEPT !.full_text = ""]]
       \/ jobs' = [jobs EXCEPT ![j] = Raise(@, "llm", "APIError")]
    /\ UNCHANGED <<papers, vectors, files, resp, offline, call>>

\* extracted_info = json.loads(response.choices[0].message.content)
ParseJson(j) ==
    /\ At(j, "parse")
    /\ \E content \in Contents(j) :
          jobs' = [jobs EXCEPT ![j] =
                      IF JsonLoadsRaises(content)
                      THEN Raise(@, "parse", "JSONDecodeError")
                      ELSE [Advance(@) EXCEPT !.extracted_info = content]]
    /\ UNCHANGED <<papers, vectors, files, resp, offline, call>>

\* Variant of the embedding stage: a value without .get is read as an object
\* without keys.
EmbedAnyValue(j) ==
    /\ j \in 1..Len(jobs)
    /\ jobs[j].pc = "embed"
    /\ \/ jobs' = [jobs EXCEPT ![j] =
                      [@ EXCEPT !.pc = "sqlite",
                                !.embedding = Encode(TextToEmbed(jobs[j].extracted_info.value))]]
       \/ jobs' = [jobs EXCEPT ![j] = Raise(@, "embed", "RuntimeError")]
    /\ UNCHANGED <<papers, vectors, files, resp, offline, call>>

\* text_to_embed = f"{extracted_info.get(...)}..."; embedding = model.encode(...)
\* A JSON value that is not an object has no .get: AttributeError.
Embed(j) ==
    /\ At(j, "embed")
    /\ IF jobs[j].extracted_info.kind # "object"
       THEN jobs' = [jobs EXCEPT ![j] = Raise(@, "embed", "AttributeError")]
       ELSE \/ jobs' = [jobs EXCEPT ![j] =
                          [Advance(@) EXCEPT
                              !.embedding = Encode(TextToEmbed(jobs[j].extracted_info.value))]]
            \/ jobs' = [jobs EXCEPT ![j] = Raise(@, "embed", "RuntimeError")]
    /\ UNCHANGED <<papers, vectors, files, resp, offline, call>>

\* Variant of the upsert: title is missing from the DO UPDATE SET list, so a
\* conflicting row keeps its title.
SaveSqliteKeepsTitle(j) ==
    /\ j \in 1..Len(jobs)
    /\ jobs[j].pc = "sqlite"
    /\ \/ /\ papers' =
                Upsert(papers, jobs[j].arxiv_id,
                       IF jobs[j].arxiv_id \in DOMAIN papers
                       THEN [RowOf(jobs[j].arxiv_id, jobs[j].extracted_info.value)
                                EXCEPT !.title = papers[jobs[j].arxiv_id].title]
                       ELSE RowOf(jobs[j].arxiv_id, jobs[j].extracted_info.value))
          /\ jobs' = [jobs EXCEPT ![j] =
                         [@ EXCEPT !.pc = "chroma", !.wrote = @ \cup {"sqlite"}]]
       \/ /\ papers' = papers
          /\ jobs' = [jobs EXCEPT ![j] = Raise(@, "sqlite", "OperationalError")]
    /\ UNCHANGED <<vectors, files, resp, offline, call>>

\* INSERT INTO papers ... ON CONFLICT(id) DO UPDATE ...; conn.commit()
SaveSqlite(j) ==
    /\ At(j, "sqlite")
    /\ \/ /\ papers' = Upsert(papers, jobs[j].arxiv_id,
                              RowOf(jobs[j].arxiv_id, jobs[j].extracted_info.value))
          /\ jobs' = [jobs EXCEPT ![j] =
                         [Advance(@) EXCEPT !.wrote = @ \cup {"sqlite"}]]
       \/ /\ papers' = papers
          /\ jobs' = [jobs EXCEPT ![j] = Raise(@, "sqlite", "OperationalError")]
    /\ UNCHANGED <<vectors, files, resp, offline, call>>

\* paper_collection.upsert(ids=[id], embeddings=[embedding]); return "Success"
SaveChroma(j) ==
    /\ At(j, "chroma")
    /\ \/ /\ vectors' = Upsert(vectors, jobs[j].arxiv_id, jobs[j].embedding)
          /\ jobs' = [jobs EXCEPT ![j] =
                         [Leave(@) EXCEPT !.wrote = @ \cup {"chroma"},
                                          !.result = "Success: " \o jobs[j].arxiv_id]]
       \/ /\ vectors' = vectors
          /\ jobs' = [jobs EXCEPT ![j] = Raise(@, "chroma", "ChromaError")]
    /\ UNCHANGED <<papers, files, resp, offline, call>>

\* Variant of the finally clause: the file is left in place.
FinallyKeepsFile(j) ==
    /\ j \in 1..Len(jobs)
    /\ jobs[j].pc = "finally"
    /\ jobs' = [jobs EXCEPT ![j].pc = "done"]
    /\ UNCHANGED <<papers, vectors, files, resp, offline, call>>

\* Variant of the finally clause: a failed execution is begun again.
FinallyRetriesFailed(j) ==
    /\ j \in 1..Len(jobs)
    /\ jobs[j].pc = "finally"
    /\ files' = IF jobs[j].pdf_path /\ jobs[j].arxiv_id \in DOMAIN files
                THEN Remove(files, jobs[j].arxiv_id)
                ELSE files
    /\ jobs' = [jobs EXCEPT ![j] =
                   IF @.failed_at = "" THEN [@ EXCEPT !.pc = "done"]
                   ELSE [@ EXCEPT !.pc = "fetch", !.pdf_path = FALSE,
                                  !.failed_at = "", !.raised = "", !.result = ""]]
    /\ UNCHANGED <<papers, vectors, resp, offline, call>>

\* Variant of the finally clause: every file of the temporary directory is
\* removed.
FinallyClearsDirectory(j) ==
    /\ j \in 1..Len(jobs)
    /\ jobs[j].pc = "finally"
    /\ files' = Empty
    /\ jobs' = [jobs EXCEPT ![j].pc = "done"]
    /\ UNCHANGED <<papers, vectors, resp, offline, call>>

\* finally: if pdf_path and os.path.exists(pdf_path): os.remove(pdf_path)
\* (an OSError of os.remove, such as the path being gone, is caught); then the
\* function returns, or the exception the except clause did not catch leaves it.
Finally(j) ==
    /\ At(j, "finally")
    /\ files' = IF jobs[j].pdf_path /\ jobs[j].arxiv_id \in DOMAIN files
                THEN Remove(files, jobs[j].arxiv_id)
                ELSE files
    /\ jobs' = [jobs EXCEPT ![j].pc = "done"]
    /\ UNCHANGED <<papers, vectors, resp, offline, call>>

JobStep(j) ==
    \/ Fetch(j)
    \/ Download(j)
    \/ ExtractText(j)
    \/ CallLLM(j)
    \/ ParseJson(j)
    \/ Embed(j)
    \/ SaveSqlite(j)
    \/ SaveChroma(j)
    \/ Finally(j)

\* ---------------------------------------------------------- offline scripts
\* The scripts under processing/ seed and update the papers table and the
\* vector collection the backend serves.  A run handles the identifiers of
\* its input file and commits once.

\* process_meta.prepare_batch_file_and_db:
\*   INSERT OR IGNORE INTO papers (id, title, authors, abstract)
\* authors is json.dumps of the 'author' field of the metadata line, one
\* string naming the authors, which is the form get_authors_list reads.
MetaRow(arxiv_id) ==
    [ title        |-> "meta title " \o arxiv_id,
      abstract     |-> "meta abstract " \o arxiv_id,
      authors      |-> "\"" \o Join(Authors(arxiv_id), ", ") \o "\"",
      contribution |-> Null,
      tasks        |-> Null,
      methods      |-> Null,
      datasets     |-> Null,
      code_links   |-> Null,
      results      |-> Null,
      processed    |-> 0 ]

\* What the batch text-generation job answered for an identifier.
BatchObject(arxiv_id) ==
    [k \in TextKeys \cup ListKeys |->
        IF k \in TextKeys THEN "batch " \o k \o " " \o arxiv_id
        ELSE <<"batch " \o k \o " " \o arxiv_id>>]

\* process_meta.process_batch_results:
\*   UPDATE papers SET contribution, tasks, methods, datasets, code_links,
\*                     results, processed = 1 WHERE id = ?
MetaUpdate(row, info) ==
    [row EXCEPT !.contribution = Get(info, "contribution", ""),
                !.tasks        = JsonDumps(Get(info, "tasks", <<>>)),
                !.methods      = JsonDumps(Get(info, "methods", <<>>)),
                !.datasets     = JsonDumps(Get(info, "datasets", <<>>)),
                !.code_links   = JsonDumps(Get(info, "code_links", <<>>)),
                !.results      = JsonDumps(Get(info, "results", <<>>)),
                !.processed    = 1]

\* process_pdfs.process_batch_results_pdf:
\*   INSERT INTO papers (id, title, abstract, contribution, ..., processed)
\*   VALUES (..., 2) ON CONFLICT(id) DO UPDATE SET <the same columns>
\* authors is not among the columns: NULL on insert, kept on update.
\* title and abstract are .strip()ped; the batch values carry no outer blanks.
PdfRow(table, arxiv_id, info) ==
    [ title        |-> Get(info, "title", ""),
      abstract     |-> Get(info, "abstract", ""),
      authors      |-> IF arxiv_id \in DOMAIN table THEN table[arxiv_id].authors ELSE Null,
      contribution |-> Get(info, "contribution", ""),
      tasks        |-> JsonDumps(Get(info, "tasks", <<>>)),
      methods      |-> JsonDumps(Get(info, "methods", <<>>)),
      datasets     |-> JsonDumps(Get(info, "datasets", <<>>)),
      code_links   |-> JsonDumps(Get(info, "code_links", <<>>)),
      results      |-> JsonDumps(Get(info, "results", <<>>)),
      processed    |-> 2 ]

\* A run handles the result lines it does not skip; S is their identifiers.
OfflineRun ==
    /\ Len(jobs) + offline < MaxRuns
    /\ offline' = offline + 1

PrepareBatch(S) ==
    /\ OfflineRun
    /\ papers' = [k \in (DOMAIN papers) \cup S |->
                     IF k \in DOMAIN papers THEN papers[k] ELSE MetaRow(k)]
    /\ UNCHANGED <<vectors, files, jobs, resp, call>>

ProcessBatchResults(S) ==
    /\ OfflineRun
    /\ papers' = [k \in DOMAIN papers |->
                     IF k \in S THEN MetaUpdate(papers[k], BatchObject(k))
                     ELSE papers[k]]
    /\ UNCHANGED <<vectors, files, jobs, resp, call>>

ProcessBatchResultsPdf(S) ==
    /\ OfflineRun
    /\ papers' = [k \in (DOMAIN papers) \cup S |->
                     IF k \in S THEN PdfRow(papers, k, BatchObject(k))
                     ELSE papers[k]]
    /\ UNCHANGED <<vectors, files, jobs, resp, call>>

\* generate_embeddings.main:
\*   SELECT id, title, abstract FROM papers
\*     WHERE title IS NOT NULL AND abstract IS NOT NULL
\*   collection.upsert(ids, embeddings of f"{title}. {abstract}")
GenerateEmbeddings ==
    /\ OfflineRun
    /\ LET selected == {k \in DOMAIN papers :
                           papers[k].title # Null /\ papers[k].abstract # Null}
       IN  vectors' = [k \in (DOMAIN vectors) \cup selected |->
                          IF k \in selected
                          THEN Encode(papers[k].title \o ". " \o papers[k].abstract)
                          ELSE vectors[k]]
    /\ UNCHANGED <<papers, files, jobs, resp, call>>

\* ------------------------------------------------------------ specification
Init ==
    /\ papers = Empty
    /\ vectors = Empty
    /\ files = Empty
    /\ jobs = <<>>
    /\ resp = NoResponse
    /\ offline = 0
    /\ call = NoCall

Next ==
    \/ \E i \in Ids, ok \in BOOLEAN : SubmitPaper(i, ok)
    \/ \E j \in 1..MaxRuns : JobStep(j)

Spec == Init /\ [][Next]_vars

\* The backend with every execution scheduled again and again until it has
\* ended: each runs in a thread of the pool of the server, and each external
\* call it makes returns or raises.
Fairness ==
    \A j \in 1..MaxRuns : WF_vars(JobStep(j))

SpecLive == Init /\ [][Next]_vars /\ Fairness

\* The backend with a client polling the status of the identifiers between
\* the steps of the jobs.
NextPoll ==
    \/ \E i \in Ids, ok \in BOOLEAN : SubmitPaper(i, ok)
    \/ \E j \in 1..MaxRuns : JobStep(j)
    \/ \E i \in Ids : GetStatus(i)

SpecPoll == Init /\ [][NextPoll]_vars

\* The backend together with the offline scripts writing the same stores.
NextRepo ==
    \/ \E i \in Ids, ok \in BOOLEAN : SubmitPaper(i, ok)
    \/ \E j \in 1..MaxRuns : JobStep(j)
    \/ \E S \in (SUBSET Ids) \ {{}} : PrepareBatch(S)
    \/ \E S \in (SUBSET Ids) \ {{}} : ProcessBatchResults(S)
    \/ \E S \in (SUBSET Ids) \ {{}} : ProcessBatchResultsPdf(S)
    \/ GenerateEmbeddings

SpecRepo == Init /\ [][NextRepo]_vars

\* The status endpoint polled while the stores are written.  The jobs are
\* run one at a time in schedule order, as one worker takes them from a queue.
Running ==
    {j \in 1..Len(jobs) :
        /\ jobs[j].pc # "done"
        /\ \A k \in 1..(j - 1) : jobs[k].pc = "done"}

NextStatus ==
    \/ \E i \in Ids, ok \in BOOLEAN : SubmitPaper(i, ok)
    \/ \E j \in Running : JobStep(j)
    \/ \E S \in (SUBSET Ids) \ {{}} : PrepareBatch(S)
    \/ \E S \in (SUBSET Ids) \ {{}} : ProcessBatchResults(S)
    \/ \E S \in (SUBSET Ids) \ {{}} : ProcessBatchResultsPdf(S)
    \/ GenerateEmbeddings
    \/ \E i \in Ids : GetStatus(i)

SpecStatus == Init /\ [][NextStatus]_vars

\* extract_text_from_pdf called on its own, on a document of up to MaxPages
\* pages: with a text layer, scanned, or with a scanned cover page only.
CoverPdf(n) ==
    [ opens |-> TRUE,
      pages |-> [k \in 1..n |-> IF k = 1 THEN "" ELSE PageText(k)] ]

CallPdfs ==
    {Unopenable}
        \cup {Pdf(n, kind) : n \in 0..MaxPages, kind \in {"text", "scan"}}
        \cup {CoverPdf(n) : n \in 1..MaxPages}

InitExtract ==
    /\ papers = Empty
    /\ vectors = Empty
    /\ files = Empty
    /\ jobs = <<>>
    /\ resp = NoResponse
    /\ offline = 0
    /\ \E pdf \in CallPdfs :
          call = [fn |-> "extract_text_from_pdf", pdf |-> pdf,
                  returned |-> FALSE, full_text |-> Null]

ExtractCall ==
    /\ call.fn = "extract_text_from_pdf"
    /\ ~call.returned
    /\ call' = [call EXCEPT !.returned = TRUE,
                            !.full_text = ExtractTextFromPdf(call.pdf)]
    /\ UNCHANGED <<papers, vectors, files, jobs, resp, offline>>

NextExtract ==
    ExtractCall

SpecExtract == InitExtract /\ [][NextExtract]_vars

\* ---------------------------------------------------------------- read side
\* Characters of the stored texts in ascending code order (SQLite compares
\* text columns bytewise, BINARY collation).
Ascii ==
    " \",-.0123456789ABCDEFGHIJKLMNOPQRSTUVWXYZ[]abcdefghijklmnopqrstuvwxyz"

Code(c) ==
    CHOOSE k \in 1..Len(Ascii) : SubSeq(Ascii, k, k) = c

Rest(text) ==
    SubSeq(text, 2, Len(text))

\* a < b for two text values
RECURSIVE TextLess(_, _)
TextLess(a, b) ==
    IF b = "" THEN FALSE
    ELSE IF a = "" THEN TRUE
    ELSE IF SubSeq(a, 1, 1) = SubSeq(b, 1, 1)
    THEN TextLess(Rest(a), Rest(b))
    ELSE Code(SubSeq(a, 1, 1)) < Code(SubSeq(b, 1, 1))

\* ORDER BY column DESC: a sorts ahead of b.  NULL is smaller than any text.
DescBefore(a, b) ==
    IF a = Null THEN FALSE
    ELSE IF b = Null THEN TRUE
    ELSE TextLess(b, a)

\* lower() of one character, ASCII letters only
Lower(c) ==
    LET upper == "ABCDEFGHIJKLMNOPQRSTUVWXYZ"
        lower == "abcdefghijklmnopqrstuvwxyz"
    IN  IF \E k \in 1..26 : SubSeq(upper, k, k) = c
        THEN LET k == CHOOSE k \in 1..26 : SubSeq(upper, k, k) = c
             IN  SubSeq(lower, k, k)
        ELSE c

\* text LIKE pattern, letters compared without case: % is any run of
\* characters, _ any one character.
RECURSIVE Like(_, _)
Like(text, pattern) ==
    IF pattern = "" THEN text = ""
    ELSE IF SubSeq(pattern, 1, 1) = "%"
    THEN Like(text, Rest(pattern)) \/ (text # "" /\ Like(Rest(text), pattern))
    ELSE /\ text # ""
         /\ \/ SubSeq(pattern, 1, 1) = "_"
            \/ Lower(SubSeq(text, 1, 1)) = Lower(SubSeq(pattern, 1, 1))
         /\ Like(Rest(text), Rest(pattern))

\* column.ilike(pattern): NULL for a NULL column, which CASE takes as false
ILike(column, pattern) ==
    column # Null /\ Like(column, pattern)

\* Sequences: the places of an element, the elements, filtering in order.
IndexOf(seq, x) ==
    CHOOSE k \in 1..Len(seq) : seq[k] = x

Range(seq) ==
    {seq[k] : k \in 1..Len(seq)}

\* The element of a one-element set.  The({e : x \in {v}}) is e for x = v,
\* with v computed once however often e uses x.
The(S) ==
    CHOOSE x \in S : TRUE

\* ORDER BY over a pair per row: the row with the greater first part is
\* ahead and, of two rows with the same first part, the one with the smaller
\* second part.
KeyBefore(x, y) ==
    x[1] > y[1] \/ (x[1] = y[1] /\ x[2] < y[2])

\* The elements of S in the order of their keys: each element is paired with
\* its place, one more than the number of elements ahead of it.
Ordered(S, key) ==
    The({ The({ [k \in 1..Cardinality(S) |->
                    (CHOOSE p \in places : p[1] = k)[2]] :
                places \in {{<<1 + Cardinality({y \in S :
                                    KeyBefore(keys[y], keys[x])}), x>> :
                              x \in S}} }) :
          keys \in {key} })

\* seq[offset : offset + limit]
Slice(seq, offset, limit) ==
    SubSeq(seq, offset + 1, Min(offset + limit, Len(seq)))

\* n_results of the two nearest-neighbour queries, and the default page size.
SEARCH_N_RESULTS == 200
RECOMMEND_N_RESULTS == 6
PER_PAGE == 12

\* paper_collection.query(query_embeddings=[q], n_results=n)["ids"][0]: the
\* identifiers of the n nearest records, nearest first.  A record whose
\* embedding equals q is at distance 0, ahead of every other record; the
\* order of the other records, and of records at equal distance, is the
\* order of `ranking`, a sequence of all identifiers.
Query(collection, q, n, ranking) ==
    LET Exact(i) == i \in DOMAIN collection /\ collection[i] = q
        Other(i) == i \in DOMAIN collection /\ collection[i] # q
        nearest == SelectSeq(ranking, Exact) \o SelectSeq(ranking, Other)
    IN  SubSeq(nearest, 1, Min(n, Len(nearest)))

\* Paper.get_authors_list raises: json.loads of the column, put between
\* double quotes unless it starts with one, is not a JSON string.
HasQuote(text) ==
    \E k \in 1..Len(text) : SubSeq(text, k, k) = "\""

GetAuthorsListRaises(authors) ==
    /\ authors # Null
    /\ IF Len(authors) > 0 /\ SubSeq(authors, 1, 1) = "\""
       THEN ~ /\ Len(authors) >= 2
              /\ SubSeq(authors, Len(authors), Len(authors)) = "\""
              /\ ~HasQuote(SubSeq(authors, 2, Len(authors) - 1))
       ELSE HasQuote(authors)

\* schemas.PaperBase(id=p.id, title=p.title, authors=p.get_authors_list())
\* raises for a NULL title (title: str) or when get_authors_list raises.
PaperBaseRaises(row) ==
    row.title = Null \/ GetAuthorsListRaises(row.authors)

PaperBase(id, row) ==
    [id |-> id, title |-> row.title]

\* Variant of the filter: has_code = true keeps every row whose code_links is
\* not NULL, the empty list "[]" included.
CodeFilterKeepsEmptyList(row, has_code) ==
    CASE has_code = "True"  -> row.code_links # Null
      [] has_code = "False" -> row.code_links = Null \/ row.code_links = "[]"
      [] OTHER              -> TRUE

\* The has_code filter of read_papers; has_code is "None", "True" or "False".
CodeFilter(row, has_code) ==
    CASE has_code = "True"  -> row.code_links # Null /\ row.code_links # "[]"
      [] has_code = "False" -> row.code_links = Null \/ row.code_links = "[]"
      [] OTHER              -> TRUE

\* Variant of the CASE: the abstract is tested ahead of the title.
RankingScoreAbstractFirst(row, search) ==
    IF ILike(row.abstract, "%" \o search \o "%") THEN 2
    ELSE IF ILike(row.title, "%" \o search \o "%") THEN 3
    ELSE 1

\* ranking_score = case((title.ilike(term), 3), (abstract.ilike(term), 2), else_=1)
RankingScore(row, search) ==
    IF ILike(row.title, "%" \o search \o "%") THEN 3
    ELSE IF ILike(row.abstract, "%" \o search \o "%") THEN 2
    ELSE 1

\* semantic_ids of read_papers: the nearest records of the encoded query
SemanticIds(collection, search, ranking) ==
    Query(collection, Encode(search), SEARCH_N_RESULTS, ranking)

Page(code, total_items, page, per_page, items) ==
    [ code        |-> code,
      total_items |-> total_items,
      total_pages |-> (total_items + per_page - 1) \div per_page,
      page        |-> page,
      per_page    |-> per_page,
      items       |-> items ]

\* Variant of the selection: the candidates' rows without the has_code filter.
SelectedUnfiltered(table, search, has_code, semantic_ids) ==
    {i \in DOMAIN table : search # "" => i \in Range(semantic_ids)}

\* The rows read_papers selects: on the query path the rows of the
\* candidates (Paper.id.in_(semantic_ids)), else every row; then the
\* has_code filter.
Selected(table, search, has_code, semantic_ids) ==
    {i \in DOMAIN table :
        /\ search # "" => i \in Range(semantic_ids)
        /\ CodeFilter(table[i], has_code)}

\* ORDER BY of read_papers as a pair per selected row (KeyBefore).  Query
\* path: ranking_score.desc(),
\* semantic_order.asc().  No query: title.desc(), the first part being the
\* number of selected rows with a smaller title; rows with equal titles,
\* which ORDER BY leaves in no particular order, come in the order of
\* `ranking`.
OrderKey(table, selected, search, semantic_ids, ranking) ==
    [i \in selected |->
        IF search # ""
        THEN <<RankingScore(table[i], search), IndexOf(semantic_ids, i)>>
        ELSE <<Cardinality({j \in selected :
                               DescBefore(table[i].title, table[j].title)}),
               IndexOf(ranking, i)>>]

\* total_items, the page cut by offset and limit, and the response items.
Paginate(table, ordered, page, per_page) ==
    The({ LET rows == Slice(query, (page - 1) * per_page, per_page)
          IN  IF \E k \in 1..Len(rows) : PaperBaseRaises(table[rows[k]])
              THEN Page(500, 0, page, per_page, <<>>)
              ELSE Page(200, Len(query), page, per_page,
                        [k \in 1..Len(rows) |->
                            PaperBase(rows[k], table[rows[k]])]) :
          query \in {ordered} })

\* Variant of read_papers: the rows whose title matches the query text,
\* whatever the vector index returned.
ReadPapersByText(table, collection, search, has_code, page, per_page, ranking) ==
    The({ Paginate(table,
                   Ordered(selected,
                           [i \in selected |-> <<0, IndexOf(ranking, i)>>]),
                   page, per_page) :
          selected \in {{i \in DOMAIN table :
                            ILike(table[i].title, "%" \o search \o "%")}} })

\* GET /papers: the response of read_papers.  `search` is "" when no query
\* string is given.
ReadPapers(table, collection, search, has_code, page, per_page, ranking) ==
    The({ IF search # "" /\ semantic_ids = <<>>
          THEN [code |-> 200, total_items |-> 0, total_pages |-> 0, page |-> 1,
                per_page |-> per_page, items |-> <<>>]
          ELSE The({ Paginate(table,
                              Ordered(selected,
                                      OrderKey(table, selected, search,
                                               semantic_ids, ranking)),
                              page, per_page) :
                     selected \in {Selected(table, search, has_code,
                                            semantic_ids)} }) :
          semantic_ids \in {SemanticIds(collection, search, ranking)} })

\* Variant of the lookup: the query is issued for an identifier without a
\* record too, with the embedding of the identifier.
NeighboursAlwaysQueried(collection, paper_id, ranking) ==
    Query(collection,
          IF paper_id \in DOMAIN collection THEN collection[paper_id]
          ELSE Encode(paper_id),
          RECOMMEND_N_RESULTS, ranking)

\* results["ids"][0] of get_recommendations: the nearest records of the
\* stored embedding of paper_id; no query when the collection has no record.
Neighbours(collection, paper_id, ranking) ==
    IF paper_id \in DOMAIN collection
    THEN Query(collection, collection[paper_id], RECOMMEND_N_RESULTS, ranking)
    ELSE <<>>

\* Variant of get_recommendations: the rows come in the order of the table,
\* by identifier.
GetRecommendationsInTableOrder(table, collection, paper_id, ranking) ==
    LET recommended ==
            (Range(Neighbours(collection, paper_id, ranking)) \ {paper_id})
                \cap DOMAIN table
        rows == Ordered(recommended,
                        [i \in recommended |->
                            <<0, Cardinality({j \in recommended : TextLess(j, i)})>>])
    IN  IF \E k \in 1..Len(rows) : PaperBaseRaises(table[rows[k]]) THEN <<>>
        ELSE [k \in 1..Len(rows) |-> PaperBase(rows[k], table[rows[k]])]

\* GET /papers/{paper_id}/recommendations: the list get_recommendations
\* returns; every exception inside the try block gives the empty list.
GetRecommendations(table, collection, paper_id, ranking) ==
    LET NotSelf(pid) == pid # paper_id
        HasRow(pid) == pid \in DOMAIN table
        recommended_ids == SelectSeq(Neighbours(collection, paper_id, ranking), NotSelf)
        rows == SelectSeq(recommended_ids, HasRow)
    IN  IF paper_id \notin DOMAIN collection THEN <<>>
        ELSE IF \E k \in 1..Len(rows) : PaperBaseRaises(table[rows[k]]) THEN <<>>
        ELSE [k \in 1..Len(rows) |-> PaperBase(rows[k], table[rows[k]])]

\* GET /papers/{paper_id}: 404 without a row; schemas.Paper(...) raises for
\* what PaperBase raises for and for a NULL list column (None has no strip).
ReadPaper(table, paper_id) ==
    IF paper_id \notin DOMAIN table THEN [code |-> 404, id |-> paper_id]
    ELSE IF \/ PaperBaseRaises(table[paper_id])
            \/ \E k \in {"tasks", "methods", "datasets", "code_links"} :
                  table[paper_id][k] = Null
    THEN [code |-> 500, id |-> paper_id]
    ELSE [code |-> 200, id |-> paper_id]

\* The read operations called on stores the writers have filled.
PaperIds == <<"P1", "P2", "P3", "P4", "P5", "P6", "P7">>

\* What the text-generation service answered for the papers: seven papers
\* (two of them with the same title and abstract), or seven versions of one
\* paper.  Keys that are left out are stored as RowOf stores them.
Titles ==
    <<"Transformers for Vision", "Graph Networks", "Speech Decoding",
      "Vision at Scale", "Parsing", "Speech Decoding", "Alignment">>

Abstracts ==
    <<"Attention", "A survey of vision models", "Audio",
      "Vision systems at scale", "Computer Vision tasks", "Audio", "Text">>

Info(pattern, n) ==
    [k \in {"title", "abstract", "code_links"} |->
        CASE k = "title" ->
                IF pattern = "versions" THEN "Vision at Scale" ELSE Titles[n]
          [] k = "abstract" ->
                IF pattern = "versions" THEN "Seeing" ELSE Abstracts[n]
          [] OTHER ->
                IF n % 2 = 1 THEN <<"github.com/" \o PaperIds[n]>> ELSE <<>>]

\* One paper may differ from the rest: no row (its record came from
\* generate_embeddings reading processing/_data/papers.db), a row written
\* from the object {}, or a row of prepare_batch_file_and_db.
Specials ==
    {[kind |-> "none", n |-> 0]}
        \cup {[kind |-> kind, n |-> n] :
                 kind \in {"rowless", "untitled", "meta"}, n \in {1, 2, 5}}

\* How many of the papers, the first ones, have a record in the collection.
Indexed ==
    {0, 3, 6, 7}

StoredRow(pattern, special, n) ==
    IF special.n = n /\ special.kind = "untitled" THEN RowOf(PaperIds[n], Empty)
    ELSE IF special.n = n /\ special.kind = "meta" THEN MetaRow(PaperIds[n])
    ELSE RowOf(PaperIds[n], Info(pattern, n))

StoredVector(pattern, special, n) ==
    IF special.n = n /\ special.kind = "untitled" THEN Encode(TextToEmbed(Empty))
    ELSE IF special.n = n /\ special.kind = "meta"
    THEN Encode(MetaRow(PaperIds[n]).title \o ". " \o MetaRow(PaperIds[n]).abstract)
    ELSE Encode(TextToEmbed(Info(pattern, n)))

\* The orders in which the vector index ranks the records it does not
\* place by an exact match, and SQLite the rows ORDER BY leaves tied.
Rankings ==
    { <<"P1", "P2", "P3", "P4", "P5", "P6", "P7">>,
      <<"P7", "P6", "P5", "P4", "P3", "P2", "P1">>,
      <<"P3", "P1", "P2", "P7", "P4", "P6", "P5">>,
      <<"P2", "P7", "P1", "P6", "P3", "P5", "P4">> }

InitRead ==
    /\ files = Empty
    /\ jobs = <<>>
    /\ resp = NoResponse
    /\ offline = 0
    /\ call = NoCall
    /\ \E pattern \in {"papers", "versions"}, special \in Specials,
          indexed \in Indexed :
          /\ papers =
                [i \in {PaperIds[n] : n \in {m \in 1..Len(PaperIds) :
                                                ~(special.n = m /\ special.kind = "rowless")}}
                    |-> StoredRow(pattern, special, IndexOf(PaperIds, i))]
          /\ vectors =
                [i \in {PaperIds[n] : n \in 1..indexed}
                    |-> StoredVector(pattern, special, IndexOf(PaperIds, i))]

\* One request is followed from the stores as they stand to its response.
Idle ==
    /\ call.fn = "none"
    /\ resp = NoResponse

ReadPapersCall(search, has_code, page, per_page, ranking) ==
    /\ Idle
    /\ call' = [ fn           |-> "read_papers",
                 search       |-> search,
                 has_code     |-> has_code,
                 page         |-> page,
                 per_page     |-> per_page,
                 ranking      |-> ranking,
                 queried      |-> search # "",
                 semantic_ids |-> IF search # ""
                                  THEN SemanticIds(vectors, search, ranking)
                                  ELSE <<>>,
                 response     |-> ReadPapers(papers, vectors, search, has_code,
                                             page, per_page, ranking) ]
    /\ UNCHANGED <<papers, vectors, files, jobs, resp, offline>>

GetRecommendationsCall(paper_id, ranking) ==
    /\ Idle
    /\ call' = [ fn         |-> "get_recommendations",
                 paper_id   |-> paper_id,
                 ranking    |-> ranking,
                 queried    |-> paper_id \in DOMAIN vectors,
                 neighbours |-> Neighbours(vectors, paper_id, ranking),
                 response   |-> GetRecommendations(papers, vectors, paper_id, ranking) ]
    /\ UNCHANGED <<papers, vectors, files, jobs, resp, offline>>

ReadPaperCall(paper_id) ==
    /\ Idle
    /\ call' = [ fn       |-> "read_paper",
                 paper_id |-> paper_id,
                 response |-> ReadPaper(papers, paper_id) ]
    /\ UNCHANGED <<papers, vectors, files, jobs, resp, offline>>

GetStatusCall(arxiv_id) ==
    /\ Idle
    /\ GetStatus(arxiv_id)

NextRead ==
    \/ \E search \in {"", "vision"}, has_code \in {"None", "True", "False"},
          page \in {1, 2}, per_page \in {3, PER_PAGE}, ranking \in Rankings :
          ReadPapersCall(search, has_code, page, per_page, ranking)
    \/ \E n \in 1..Len(PaperIds), ranking \in Rankings :
          GetRecommendationsCall(PaperIds[n], ranking)
    \/ \E n \in 1..Len(PaperIds) : ReadPaperCall(PaperIds[n])
    \/ \E n \in 1..Len(PaperIds) : GetStatusCall(PaperIds[n])

SpecRead == InitRead /\ [][NextRead]_vars

\* ------------------------------------------------------------------ claims
JobIds == 1..Len(jobs)

JobsFor(i) == {j \in JobIds : jobs[j].arxiv_id = i}

Completed(i) == i \in DOMAIN papers /\ papers[i].processed = 2

\* The stages ahead of the two store writes.
EarlyStages == {"fetch", "download", "extract", "llm", "parse", "embed"}

\* A step that is a submission of identifier i: it answers the request, and
\* schedules a job when it accepts.
SubmitStep(i) ==
    \/ /\ Len(jobs') = Len(jobs) + 1
       /\ jobs'[Len(jobs')].arxiv_id = i
    \/ /\ resp' # resp
       /\ resp'.op = "submit"
       /\ resp'.id = i

\* C1: in every reachable state and for every identifier, the row is marked
\* completed (processed == 2) exactly when the vector collection holds a
\* record for the identifier.
C1_CompletedIffVector ==
    \A i \in Ids : Completed(i) <=> i \in DOMAIN vectors

\* C2: when the only job of an identifier has ended after its vector upsert
\* failed, the identifier's row is not marked completed.
C2_VectorFailureNotCompleted ==
    \A j \in JobIds :
        ( /\ jobs[j].pc = "done"
          /\ jobs[j].failed_at = "chroma"
          /\ JobsFor(jobs[j].arxiv_id) = {j} )
        => ~Completed(jobs[j].arxiv_id)

\* C3: a submission of an identifier one of whose jobs has returned success
\* is rejected with 409 and schedules no job.
C3_ResubmitAfterSuccessConflicts ==
    [][ \A i \in Ids :
          ( /\ SubmitStep(i)
            /\ \E j \in JobsFor(i) : jobs[j].pc = "done" /\ jobs[j].failed_at = "" )
          => /\ resp' = Response("submit", i, 409, "already fully processed")
             /\ jobs' = jobs ]_vars

C3_Witness ==
    \E i \in Ids :
        /\ resp.op = "submit" /\ resp.id = i /\ resp.code = 409
        /\ \E j \in JobsFor(i) : jobs[j].pc = "done" /\ jobs[j].failed_at = ""

\* C4: a submission of an identifier all of whose jobs have ended in failure
\* is not rejected as a conflict.
C4_ResubmitAfterFailureAccepted ==
    [][ \A i \in Ids :
          ( /\ SubmitStep(i)
            /\ JobsFor(i) # {}
            /\ \A j \in JobsFor(i) : jobs[j].pc = "done" /\ jobs[j].failed_at # "" )
          => resp'.code # 409 ]_vars

\* C5: no step lowers the processed column of a row.
C5_ProcessedNeverDecreases ==
    [][ \A i \in DOMAIN papers :
          /\ i \in DOMAIN papers'
          /\ papers'[i].processed >= papers[i].processed ]_vars

\* C6: a job that failed at the fetch, text-extraction, structured-extraction
\* or embedding stage has written neither store.
C6_EarlyFailureWritesNothing ==
    \A j \in JobIds :
        jobs[j].failed_at \in EarlyStages => jobs[j].wrote = {}

C6_Witness ==
    \E j \in JobIds :
        /\ jobs[j].pc = "done"
        /\ jobs[j].failed_at = "embed"
        /\ jobs[j].wrote = {}
        /\ papers = Empty /\ vectors = Empty

\* C7: the status of an identifier all of whose jobs have ended in failure
\* differs from the status of an identifier that was never submitted.
C7_FailedDistinguishable ==
    \A i \in Ids, k \in Ids :
        ( /\ JobsFor(i) # {}
          /\ \A j \in JobsFor(i) : jobs[j].pc = "done" /\ jobs[j].failed_at # ""
          /\ JobsFor(k) = {} )
        => Status(papers, i) # Status(papers, k)

C9_AlwaysReturnsOutcome ==
    \A j \in JobIds :
        jobs[j].pc \in {"finally", "done"} =>
            IF jobs[j].failed_at = ""
            THEN jobs[j].result = "Success: " \o jobs[j].arxiv_id
            ELSE jobs[j].result = "Failed: " \o jobs[j].raised

C9_Witness ==
    \E j \in JobIds :
        /\ jobs[j].pc = "done"
        /\ jobs[j].failed_at = "parse"
        /\ jobs[j].result = "Failed: JSONDecodeError"

\* C10: a submission answers 409, 500 or 202; 409 exactly when the row of the
\* identifier has processed == 2; only 202 schedules a job, the job of the
\* identifier; the stores are left alone whatever the jobs have done.
C10_SubmitOutcomes ==
    [][ \A i \in Ids :
          SubmitStep(i) =>
            /\ resp'.op = "submit" /\ resp'.id = i
            /\ resp'.code \in {202, 409, 500}
            /\ resp'.code = 409 <=> (i \in DOMAIN papers /\ papers[i].processed = 2)
            /\ IF resp'.code = 202
               THEN jobs' = Append(jobs, NewJob(i))
               ELSE jobs' = jobs
            /\ UNCHANGED <<papers, vectors, files>> ]_vars

C10_Witness ==
    \E i \in Ids :
        /\ resp.op = "submit" /\ resp.id = i /\ resp.code = 202
        /\ i \in DOMAIN papers /\ papers[i].processed = 0
        /\ \E j \in JobsFor(i) : jobs[j].pc = "fetch"

\* C11: the step in which a submission is accepted leaves the job it schedules
\* at its first statement, with nothing written, no file downloaded and no
\* return value, moves no other job, and changes neither store nor the temp
\* directory: everything the job does happens in later steps.
C11_AcceptedBeforeJobRuns ==
    [][ \A i \in Ids :
          (SubmitStep(i) /\ resp'.code = 202) =>
            /\ Len(jobs') = Len(jobs) + 1
            /\ SubSeq(jobs', 1, Len(jobs)) = jobs
            /\ LET job == jobs'[Len(jobs')]
               IN  /\ job.arxiv_id = i
                   /\ job.pc = "fetch"
                   /\ job.wrote = {}
                   /\ ~job.pdf_path
                   /\ job.failed_at = "" /\ job.result = ""
            /\ papers' = papers /\ vectors' = vectors /\ files' = files ]_vars

C11_Witness ==
    /\ Len(jobs) > 0
    /\ LET job == jobs[Len(jobs)]
       IN  /\ job.pc = "fetch"
           /\ resp = Response("submit", job.arxiv_id, 202, "Paper submission accepted for processing.")
           /\ job.arxiv_id \notin DOMAIN papers
           /\ job.arxiv_id \notin DOMAIN vectors

\* A step that is a status request for identifier i.
StatusStep(i) ==
    /\ resp' # resp
    /\ resp'.op = "status"
    /\ resp'.id = i

\* C12: a status request for an identifier that has no job and no row answers
\* 200 with "pending", however many requests came before, and changes neither
\* the papers table nor the vector collection.
C12_NeverSubmittedPending ==
    [][ \A i \in Ids :
          ( /\ StatusStep(i)
            /\ JobsFor(i) = {}
            /\ i \notin DOMAIN papers )
          => /\ resp' = Response("status", i, 200, "pending")
             /\ papers' = papers
             /\ vectors' = vectors ]_vars

C12_Witness ==
    \E i \in Ids :
        /\ resp = Response("status", i, 200, "pending")
        /\ JobsFor(i) = {}
        /\ i \notin DOMAIN papers
        /\ \E k \in Ids \ {i} :
              /\ k \in DOMAIN papers
              /\ \E j \in JobsFor(k) : jobs[j].pc = "done"

\* C13: a status request answers one of "pending", "processing", "completed":
\* "completed" exactly when the identifier has a row with processed == 2,
\* "processing" exactly when it has a row with another processed value,
\* "pending" exactly when it has no row.
C13_StatusPartition ==
    [][ \A i \in Ids :
          StatusStep(i) =>
            /\ resp'.code = 200
            /\ resp'.body \in {"pending", "processing", "completed"}
            /\ resp'.body = "completed"
                  <=> (i \in DOMAIN papers /\ papers[i].processed = 2)
            /\ resp'.body = "processing"
                  <=> (i \in DOMAIN papers /\ papers[i].processed # 2)
            /\ resp'.body = "pending" <=> i \notin DOMAIN papers ]_vars

C13_Witness ==
    \E i \in Ids :
        /\ resp = Response("status", i, 200, "processing")
        /\ i \in DOMAIN papers
        /\ papers[i].processed = 1

\* extract_text_from_pdf has returned the text of a document it could open.
Extracted ==
    /\ call.fn = "extract_text_from_pdf"
    /\ call.returned
    /\ call.pdf.opens

\* The text of pages a..b (counted from 1), in order.
PagesText(pages, a, b) ==
    Join(SubSeq(pages, a, b), "")

\* C14 as stated: for a document of more than 15 + 10 pages the excerpt is the
\* first 15 pages, one marker, the last 10 pages and nothing else; for 30
\* pages that is pages 1-15, the marker and pages 20-30.
C14_AsStated ==
    (Extracted /\ Len(call.pdf.pages) > PAGES_FROM_START + PAGES_FROM_END) =>
        LET pages == call.pdf.pages
            n == Len(pages)
        IN  /\ call.full_text =
                  PagesText(pages, 1, PAGES_FROM_START) \o Marker
                      \o PagesText(pages, n - PAGES_FROM_END + 1, n)
            /\ n = 30 =>
                  call.full_text =
                      PagesText(pages, 1, 15) \o Marker \o PagesText(pages, 20, 30)

\* C14: for a document of more than 15 + 10 pages the excerpt is the first 15
\* pages, one marker, the last 10 pages and nothing else; for 30 pages that is
\* pages 1-15, the marker and pages 21-30.
C14_TruncatedExcerpt ==
    (Extracted /\ Len(call.pdf.pages) > PAGES_FROM_START + PAGES_FROM_END) =>
        LET pages == call.pdf.pages
            n == Len(pages)
        IN  /\ call.full_text =
                  PagesText(pages, 1, PAGES_FROM_START) \o Marker
                      \o PagesText(pages, n - PAGES_FROM_END + 1, n)
            /\ n = 30 =>
                  call.full_text =
                      PagesText(pages, 1, 15) \o Marker \o PagesText(pages, 21, 30)

C14_Witness ==
    /\ Extracted
    /\ call.pdf = Pdf(30, "text")
    /\ call.full_text # Marker

\* C15: for a document of at most 15 pages the excerpt is all its pages in
\* order, with no truncation marker.
C15_ShortDocumentNoMarker ==
    (Extracted /\ Len(call.pdf.pages) <= PAGES_FROM_START) =>
        call.full_text = PagesText(call.pdf.pages, 1, Len(call.pdf.pages))

\* C16: no job gets past the text-extraction stage with a document that did
\* not open or that gave no character on any page: a job standing at the
\* text-generation request holds the text of some page.
C16_NoTextFailsAtExtraction ==
    \A j \in JobIds :
        jobs[j].pc = "llm" => jobs[j].full_text \notin {Null, "", Marker}

\* C17: a response that is not JSON never becomes extracted_info; a parsed
\* value that is a list, string, number or null gets no further than the
\* embedding stage; and a job that raised on either has written neither store
\* and returns "Failed: ...".
C17_UnusableResponseFails ==
    \A j \in JobIds :
        /\ jobs[j].extracted_info.kind # "text"
        /\ jobs[j].extracted_info.kind \in {"list", "string", "number", "null"}
             => (jobs[j].pc = "embed" /\ jobs[j].wrote = {})
        /\ jobs[j].raised \in {"JSONDecodeError", "AttributeError"}
             => /\ jobs[j].failed_at \in {"parse", "embed"}
                /\ jobs[j].wrote = {}
                /\ jobs[j].result = "Failed: " \o jobs[j].raised

C17_Witness ==
    \E j \in JobIds, k \in JobIds :
        /\ jobs[j].pc = "done" /\ jobs[j].raised = "AttributeError"
        /\ jobs[k].pc = "done" /\ jobs[k].raised = "JSONDecodeError"
        /\ papers = Empty /\ vectors = Empty

\* The step in which job j commits its upsert.
CommitStep(j) ==
    /\ jobs[j].pc = "sqlite"
    /\ jobs'[j].pc = "chroma"

\* C18: the row a job commits holds, for every key its JSON object omits, the
\* default: the empty string for title, abstract and contribution, the empty
\* list for tasks, methods, datasets, code_links and results.
C18_OmittedKeysStoredAsDefaults ==
    [][ \A j \in JobIds :
          CommitStep(j) =>
            LET info == jobs[j].extracted_info.value
                row == papers'[jobs[j].arxiv_id]
            IN  /\ \A k \in TextKeys \ DOMAIN info : row[k] = ""
                /\ \A k \in ListKeys \ DOMAIN info : row[k] = "[]" ]_vars

\* C19: a job whose object has neither a title nor an abstract (absent, or
\* the empty string) writes neither store, and no vector of the text built
\* from an empty title and an empty abstract is stored.
C19_EmptyTextNotEmbedded ==
    /\ \A j \in JobIds :
          ( /\ jobs[j].extracted_info.kind = "object"
            /\ Get(jobs[j].extracted_info.value, "title", "") = ""
            /\ Get(jobs[j].extracted_info.value, "abstract", "") = "" )
          => jobs[j].wrote = {}
    /\ \A i \in DOMAIN vectors : vectors[i] # Encode(". ")

\* C20: an identifier has at most one row (the table is keyed by id), and
\* whenever a step creates or changes the row of an identifier, the step is
\* the commit of one job of that identifier and the whole row afterwards is
\* the row of that job: every column comes from the job that committed last.
C20_LastCommitWinsWholeRow ==
    [][ \A i \in Ids :
          ( /\ i \in DOMAIN papers'
            /\ (i \in DOMAIN papers => papers'[i] # papers[i]) )
          => \E j \in JobsFor(i) :
                /\ CommitStep(j)
                /\ papers'[i] = RowOf(i, jobs[j].extracted_info.value) ]_vars

C20_Witness ==
    \E i \in Ids, j \in JobIds, k \in JobIds :
        /\ j # k
        /\ jobs[j].arxiv_id = i /\ jobs[k].arxiv_id = i
        /\ jobs[k].pc = "done" /\ "sqlite" \in jobs[k].wrote
        /\ jobs[j].pc = "chroma"
        /\ jobs[j].extracted_info.value = FullObject(j)
        /\ papers[i] = RowOf(i, FullObject(j))

\* The request whose response `call` holds.
ReadPapersStep ==
    call.fn = "read_papers"

QueryStep ==
    ReadPapersStep /\ call.search # ""

ItemIds(response) ==
    [k \in 1..Len(response.items) |-> response.items[k].id]

C23_NoCandidatesNoItems ==
    (QueryStep /\ call.semantic_ids = <<>>) =>
        /\ call.response.code = 200
        /\ call.response.total_items = 0
        /\ call.response.total_pages = 0
        /\ call.response.items = <<>>

\* No candidates while rows match the query by title and by abstract.
C23_Witness ==
    /\ QueryStep
    /\ call.semantic_ids = <<>>
    /\ call.response.total_items = 0
    /\ \E i \in DOMAIN papers :
          ILike(papers[i].title, "%" \o call.search \o "%")
    /\ \E i \in DOMAIN papers :
          ILike(papers[i].abstract, "%" \o call.search \o "%")

\* The page of the rows passing the has_code filter, in descending order of
\* title: the item at place k of page p has at most (p - 1) * per_page + k - 1
\* filtered rows of greater title, and more than that many of greater or
\* equal title.
TitleDescPage ==
    LET filtered == {i \in DOMAIN papers : CodeFilter(papers[i], call.has_code)}
        items == ItemIds(call.response)
        offset == (call.page - 1) * call.per_page
        Greater(i) ==
            {j \in filtered : DescBefore(papers[j].title, papers[i].title)}
        NotSmaller(i) ==
            {j \in filtered : ~DescBefore(papers[i].title, papers[j].title)}
    IN  /\ call.response.total_items = Cardinality(filtered)
        /\ Len(items)
              = Max(0, Min(call.per_page, Cardinality(filtered) - offset))
        /\ \A k \in 1..Len(items) :
              /\ items[k] \in filtered
              /\ Cardinality(Greater(items[k])) <= offset + k - 1
              /\ offset + k - 1 < Cardinality(NotSmaller(items[k]))
              /\ \A m \in 1..(k - 1) : items[m] # items[k]

\* C24: without a query string read_papers returns the papers of the table
\* that pass the code-link filter, ordered by title descending, and the
\* vector index is not consulted.
C24_NoQueryTitleDescending ==
    (ReadPapersStep /\ call.search = "") =>
        /\ call.response.code = 200
        /\ ~call.queried
        /\ TitleDescPage

\* What holds of the pages read_papers does return without a query.
C24_ReturnedPageTitleDescending ==
    (ReadPapersStep /\ call.search = "" /\ call.response.code = 200) =>
        /\ ~call.queried
        /\ TitleDescPage
        /\ call.response = ReadPapers(papers, Empty, "", call.has_code,
                                      call.page, call.per_page, call.ranking)

RecommendStep ==
    call.fn = "get_recommendations"

RecommendedIds ==
    [k \in 1..Len(call.response) |-> call.response[k].id]

\* The neighbour list is [X, P1..P5] and P1..P5 all have rows.
SelfAndFiveWithRows ==
    /\ RecommendStep
    /\ Len(call.neighbours) = RECOMMEND_N_RESULTS
    /\ call.neighbours[1] = call.paper_id
    /\ \A k \in 2..Len(call.neighbours) : call.neighbours[k] \in DOMAIN papers

\* C25: when the 6 nearest neighbours of X are [X, P1..P5] and P1..P5 all
\* have rows, get_recommendations(X) returns exactly [P1..P5] in that order.
C25_SelfExcludedFiveInOrder ==
    SelfAndFiveWithRows => RecommendedIds = Tail(call.neighbours)

\* What holds when, besides, no row of P1..P5 has a NULL title.
C25_TitledFiveInOrder ==
    (/\ SelfAndFiveWithRows
     /\ \A k \in 2..Len(call.neighbours) :
           papers[call.neighbours[k]].title # Null)
        => RecommendedIds = Tail(call.neighbours)

\* C26: for every identifier and every state of the two stores,
\* get_recommendations returns at most 5 papers and never the queried
\* identifier itself.
C26_AtMostFiveNeverSelf ==
    RecommendStep =>
        /\ Len(call.response) <= 5
        /\ call.paper_id \notin Range(RecommendedIds)

\* The half of C26 that holds.
C26_NeverSelf ==
    RecommendStep => call.paper_id \notin Range(RecommendedIds)

\* C27: without a record for the requested identifier in the collection,
\* get_recommendations returns the empty list, no error, and issues no
\* nearest-neighbour query.
C27_NoRecordNoQuery ==
    (RecommendStep /\ call.paper_id \notin DOMAIN vectors) =>
        /\ call.response = <<>>
        /\ ~call.queried
        /\ call.neighbours = <<>>

\* The identifier has a row and the collection has other records.
C27_Witness ==
    /\ RecommendStep
    /\ call.paper_id \notin DOMAIN vectors
    /\ call.paper_id \in DOMAIN papers
    /\ DOMAIN vectors # {}
    /\ call.response = <<>>

\* C28: a neighbour without a row is left out without error and the other
\* results keep the relative order of the neighbour list: the returned
\* identifiers are neighbours with a row, in the order of the neighbour
\* list, and all of them when every such row has a title.
C28_RowlessNeighbourOmitted ==
    RecommendStep =>
        LET ids == RecommendedIds
            WithRow(pid) == pid # call.paper_id /\ pid \in DOMAIN papers
            expected == SelectSeq(call.neighbours, WithRow)
        IN  /\ Range(ids) \subseteq Range(expected)
            /\ \A a, b \in 1..Len(ids) :
                  a < b => IndexOf(call.neighbours, ids[a])
                              < IndexOf(call.neighbours, ids[b])
            /\ (\A k \in 1..Len(expected) : papers[expected[k]].title # Null)
                  => ids = expected

\* A neighbour without a row between neighbours that are returned, the
\* neighbour list not being in the order of the table.
C28_Witness ==
    /\ RecommendStep
    /\ Len(call.response) >= 3
    /\ \E k \in 2..(Len(call.neighbours) - 1) :
          /\ call.neighbours[k] \notin DOMAIN papers
          /\ call.neighbours[k - 1] \in Range(RecommendedIds)
          /\ call.neighbours[k + 1] \in Range(RecommendedIds)
          /\ IndexOf(PaperIds, call.neighbours[k + 1])
                < IndexOf(PaperIds, call.neighbours[k - 1])

\* C29: the search, recommendation, single-paper and status operations
\* schedule no job and leave the table, the collection and the temporary
\* files as they are.
C29_ReadsChangeNothing ==
    [][ (call' # call \/ resp' # resp) =>
            /\ jobs' = jobs
            /\ papers' = papers
            /\ vectors' = vectors
            /\ files' = files ]_vars

\* One of the operations has answered over stores that hold papers.
C29_Witness ==
    /\ DOMAIN papers # {}
    /\ DOMAIN vectors # {}
    /\ jobs = <<>>
    /\ \/ QueryStep /\ call.response.total_items > 0
       \/ RecommendStep /\ call.response # <<>>
       \/ call.fn = "read_paper" /\ call.response.code = 200
       \/ resp.op = "status" /\ resp.code = 200

\* The entry of identifier i in store f differs from its entry in g: it was
\* created, modified or deleted.
Changed(f, g, i) ==
    \/ (i \in DOMAIN f) # (i \in DOMAIN g)
    \/ /\ i \in DOMAIN f
       /\ i \in DOMAIN g
       /\ f[i] # g[i]

\* C30: in every interleaving of the running jobs, a step that creates,
\* modifies or deletes the row, the vector record or the temporary file of an
\* identifier is a step of one job of that identifier, and no other job
\* moves in it: a job for X never touches what belongs to another Y.
C30_JobsTouchOnlyTheirOwnIdentifier ==
    [][ \A i \in Ids :
          ( \/ Changed(papers, papers', i)
            \/ Changed(vectors, vectors', i)
            \/ Changed(files, files', i) )
          => \E j \in JobsFor(i) :
                /\ jobs'[j] # jobs[j]
                /\ \A k \in JobIds \ {j} : jobs'[k] = jobs[k] ]_vars

\* Two jobs of different identifiers have run side by side, each past its
\* download and its commit.
C30_Witness ==
    \E j \in JobIds, k \in JobIds :
        /\ jobs[j].arxiv_id # jobs[k].arxiv_id
        /\ jobs[j].pc = "chroma" /\ jobs[k].pc = "chroma"
        /\ jobs[j].arxiv_id \in DOMAIN papers /\ jobs[k].arxiv_id \in DOMAIN papers
        /\ jobs[j].arxiv_id \in DOMAIN files /\ jobs[k].arxiv_id \in DOMAIN files

\* The place of a job in its single pass through process_new_paper.
Progress(job) ==
    CASE job.pc = "finally" -> Len(Stages) + 1
      [] job.pc = "done"    -> Len(Stages) + 2
      [] OTHER              -> CHOOSE k \in 1..Len(Stages) : Stages[k] = job.pc

\* C31: the executions of process_new_paper are the accepted submissions,
\* one each.  The list of executions grows only in a step that answers 202,
\* by the one execution of the accepted identifier, not yet begun; a step
\* that answers 409 or 500 adds none; and an execution is never removed,
\* given another identifier, or taken back to a statement it has passed.
C31_OneExecutionPerAcceptedSubmission ==
    [][ /\ Len(jobs') \in {Len(jobs), Len(jobs) + 1}
        /\ Len(jobs') = Len(jobs) + 1 =>
              /\ resp'.op = "submit" /\ resp'.code = 202
              /\ jobs'[Len(jobs')] = NewJob(resp'.id)
        /\ \A i \in Ids :
              (SubmitStep(i) /\ resp'.code # 202) => jobs' = jobs
        /\ \A i \in Ids :
              (SubmitStep(i) /\ resp'.code = 202) => Len(jobs') = Len(jobs) + 1
        /\ \A j \in JobIds :
              /\ jobs'[j].arxiv_id = jobs[j].arxiv_id
              /\ Progress(jobs'[j]) >= Progress(jobs[j])
              /\ jobs'[j] # jobs[j] => Progress(jobs'[j]) > Progress(jobs[j]) ]_vars

\* Two accepted submissions, two executions, and a rejected submission that
\* added none.
C31_Witness ==
    /\ Len(jobs) = 2
    /\ jobs[1].arxiv_id # jobs[2].arxiv_id
    /\ resp.op = "submit" /\ resp.code = 409
    /\ \E j \in JobIds : jobs[j].pc = "done" /\ jobs[j].arxiv_id = resp.id

\* An execution that has ended, with the value it returned.
Ended(j) ==
    /\ j \in JobIds
    /\ jobs[j].pc = "done"
    /\ \/ jobs[j].result = "Success: " \o jobs[j].arxiv_id
       \/ jobs[j].failed_at # "" /\ jobs[j].result = "Failed: " \o jobs[j].raised

\* C32: every execution that was scheduled ends, with success or with a
\* failure, and stays ended; an execution that has ended takes no further
\* step, so it writes neither store again.
C32_EveryJobEnds ==
    /\ \A j \in 1..MaxRuns : (j \in JobIds) ~> [] Ended(j)
    /\ [][ \A j \in JobIds : jobs[j].pc = "done" => jobs'[j] = jobs[j] ]_vars

\* One execution has ended with success, another with a failure after its
\* relational write.
C32_Witness ==
    \E j \in JobIds, k \in JobIds :
        /\ Ended(j) /\ jobs[j].failed_at = "" /\ jobs[j].wrote = {"sqlite", "chroma"}
        /\ Ended(k) /\ jobs[k].failed_at = "chroma" /\ jobs[k].wrote = {"sqlite"}

\* The objects the successful executions of identifier i may have parsed.
ObjectsOf(i) ==
    {Empty} \cup {FullObject(j) : j \in JobsFor(i)}

AllSucceeded(i) ==
    /\ Cardinality(JobsFor(i)) > 1
    /\ \A j \in JobsFor(i) : jobs[j].pc = "done" /\ jobs[j].failed_at = ""

\* C33: once all of several executions of one identifier have ended with
\* success, the row and the vector of the identifier come from one and the
\* same execution: some object gives both the row and the embedding.
C33_StoresAgreeOnWinner ==
    \A i \in Ids :
        AllSucceeded(i) =>
            \E info \in ObjectsOf(i) :
                /\ papers[i] = RowOf(i, info)
                /\ vectors[i] = Encode(TextToEmbed(info))

\* What holds instead: each store by itself holds what one of the
\* executions wrote.
C33_EachStoreFromSomeExecution ==
    \A i \in Ids :
        AllSucceeded(i) =>
            /\ \E info \in ObjectsOf(i) : papers[i] = RowOf(i, info)
            /\ \E info \in ObjectsOf(i) : vectors[i] = Encode(TextToEmbed(info))

\* C34: the PDF an execution has downloaded and not yet read is in place:
\* no concurrent execution of the same identifier has removed
\* temp_pdfs/<id>.pdf, so the execution does not fail at text extraction for
\* want of the file.
C34_DownloadedPdfStaysUntilRead ==
    \A j \in JobIds :
        (jobs[j].pc = "extract" /\ jobs[j].pdf_path)
            => jobs[j].arxiv_id \in DOMAIN files

\* C35 as stated: once the row of an identifier is completed, no step
\* changes the row or the vector of the identifier.
C35_CompletedRowNeverChanges ==
    [][ \A i \in Ids :
          Completed(i) =>
            /\ papers'[i] = papers[i]
            /\ ~Changed(vectors, vectors', i) ]_vars

\* C35: once the row of an identifier is completed it stays completed, no
\* further execution of the identifier is scheduled, and the row and the
\* vector change only in a write step of an execution of the identifier that
\* was scheduled before: the execution that completed the row writing its
\* vector, or a duplicate accepted while the first was running, whose
\* upserts overwrite the completed row and the vector.
C35_OnlyEarlierAcceptedJobsOverwrite ==
    [][ \A i \in Ids :
          Completed(i) =>
            /\ i \in DOMAIN papers' /\ papers'[i].processed = 2
            /\ Len(jobs') > Len(jobs) => jobs'[Len(jobs')].arxiv_id # i
            /\ (Changed(papers, papers', i) \/ Changed(vectors, vectors', i))
                  => \E j \in JobsFor(i) :
                        /\ jobs[j].pc \in {"sqlite", "chroma"}
                        /\ jobs'[j] # jobs[j] ]_vars

\* Both executions of an identifier committed and ended with success; the
\* row and the vector are those of the second, which therefore overwrote the
\* row the first had completed.
C35_Witness ==
    \E i \in Ids :
        /\ JobsFor(i) = {1, 2}
        /\ \A j \in {1, 2} : jobs[j].pc = "done" /\ jobs[j].wrote = {"sqlite", "chroma"}
        /\ papers[i] = RowOf(i, FullObject(2))
        /\ vectors[i] = Encode(TextToEmbed(FullObject(2)))

\* C36: with no rows but those the jobs write, a status request for an
\* identifier answers "pending" as long as no job of the identifier has
\* committed its relational upsert and "completed" from then on;
\* "processing" is never answered.
C36_PendingThenCompleted ==
    [][ \A i \in Ids :
          StatusStep(i) =>
            /\ resp'.body # "processing"
            /\ resp'.body =
                  IF \E j \in JobsFor(i) : "sqlite" \in jobs[j].wrote
                  THEN "completed"
                  ELSE "pending" ]_vars

\* The identifier is polled while its job stands before the relational
\* upsert, every earlier stage passed: the answer is "pending".
C36_Witness ==
    \E i \in Ids :
        /\ resp = Response("status", i, 200, "pending")
        /\ \E j \in JobsFor(i) : jobs[j].pc = "sqlite"
        /\ i \notin DOMAIN papers

\* C37: for a document of more than 15 and at most 15 + 10 pages the excerpt
\* holds every page once and in order: pages 1..15, the marker, pages 16..end;
\* the opening and the closing range neither overlap nor leave a page out.
C37_MiddleLengthEveryPageOnce ==
    (/\ Extracted
     /\ Len(call.pdf.pages) > PAGES_FROM_START
     /\ Len(call.pdf.pages) <= PAGES_FROM_START + PAGES_FROM_END) =>
        LET pages == call.pdf.pages
            n == Len(pages)
        IN  call.full_text =
                PagesText(pages, 1, PAGES_FROM_START) \o Marker
                    \o PagesText(pages, PAGES_FROM_START + 1, n)

\* A document of 20 pages of text has been read.
C37_Witness ==
    /\ Extracted
    /\ call.pdf = Pdf(20, "text")
    /\ call.full_text =
          PagesText(call.pdf.pages, 1, 15) \o Marker
              \o PagesText(call.pdf.pages, 16, 20)

\* The response to the request of `call` asked again with another has_code
\* and page, on the same stores.
Answer(has_code, page) ==
    ReadPapers(papers, vectors, call.search, has_code, page, call.per_page,
               call.ranking)

\* The pages of the result for has_code, and whether each is answered.
PagesOf(has_code) ==
    1..Max(1, Answer(has_code, 1).total_pages)

AllAnswered(has_code) ==
    \A page \in PagesOf(has_code) : Answer(has_code, page).code = 200

\* The identifiers returned for has_code over all the pages.
ItemSet(has_code) ==
    UNION {Range(ItemIds(Answer(has_code, page))) : page \in PagesOf(has_code)}

====
